---- MODULE Spec2Model ----
(***************************************************************************)
(* CHORD-IA: a browser application that sends audio to a generative model, *)
(* parses the model's answer and plays the audio in sync with the chords.  *)
(* The module models, from the TypeScript sources:                         *)
(*   - extractJSON and the JSON.parse it calls   (services/geminiService)  *)
(*   - generateWithRetry                         (services/geminiService)  *)
(*   - App / AudioInput: status, requests, recorder   (App, AudioInput)    *)
(*   - MoisesPlayer: metronome click scheduler        (AnalysisResult)     *)
(*   - activeChord lookup and getDisplayChord         (AnalysisResult)     *)
(*   - the frame loop publishing audio.currentTime    (AnalysisResult)     *)
(*   - the other revisions of extractJSON and generateWithRetry, and       *)
(*     generateWithFailover                           (unnamed/part_00x)   *)
(* Strings are sequences of one-character strings, so that trim, replace,  *)
(* indexOf, substring and JSON.parse are computed character by character.  *)
(***************************************************************************)
EXTENDS Integers, Sequences, FiniteSets, TLC

VARIABLES
  \* --- response extraction (extractJSON) ---
  responseText,   \* response.text handed to extractJSON
  isolated,       \* the JSON object text the response was built around
  extracted,      \* outcome of extractJSON: pending / returned value / thrown
  \* --- model invocation (generateWithRetry) ---
  script,         \* outcome of the 1st, 2nd, ... call of ai.models.generateContent
  rpc,            \* where generateWithRetry stands: calling / waiting / returned / thrown
  retries,        \* the retries argument of the running invocation
  calls,          \* generateContent calls made so far
  delays,         \* the delay(ms) waits completed so far, in order
  retResult,      \* number of the call whose response was returned (0: none)
  rethrown,       \* message of the error thrown to the caller (<<>>: none)
  \* --- App and AudioInput ---
  status,         \* App: AnalysisStatus
  analysis,       \* App: the parsed analysis, or null
  error,          \* App: the error message shown, or null
  requests,       \* the processAudio / processLink invocations still running
  input,          \* the mounted AudioInput: activeTab, isRecording, linkUrl, mediaRecorderRef
  recorders,      \* the MediaRecorder objects created by startRecording
  lastAlert,      \* the text of the last alert() shown
  \* --- MoisesPlayer: transport and click scheduler (times in ticks of 12.5 ms) ---
  now,                \* the clock: audioContext.currentTime
  audioTime,          \* audioRef.current.currentTime
  audioPaused,        \* audioRef.current.paused
  endedPending,       \* the audio element's ended event is queued
  isPlaying,          \* React state isPlaying
  showMetronome,      \* React state showMetronome
  playbackRate,       \* React state playbackRate, in halves (1: 0.5x, 2: 1.0x)
  bpm,                \* analysis.bpm
  audioContextRef,    \* TRUE once the AudioContext exists
  nextClickTimeRef,   \* nextClickTimeRef.current
  schedulerTimerRef,  \* due time of the pending setTimeout(scheduleClicks), -1: none
  orphanTimers,       \* number of pending setTimeout(scheduleClicks) the ref no longer names
  closure,            \* the render whose scheduleClicks the pending timeout calls
  clicks,             \* the start times given to osc.start, each with how often
  userOps,            \* how many controls the user has operated
  seeked,             \* a seek happened and no scheduling cycle has run since
  lastCycle,          \* the last scheduling cycle: its inputs and its snap
  scheduled,          \* the last scheduling cycle that ran its loop: clock, audio position, starts
  animationFrameId,   \* TRUE while a requestAnimationFrame(tick) callback is pending
  playerCurrentTime,  \* MoisesPlayer's React state currentTime
  parentCurrentTime,  \* AnalysisResult's React state currentTime (onTimeUpdate)
  frameDrawn,         \* a frame callback has run at this observation of the clock
  mounted,            \* the player is mounted
  \* --- MoisesPlayer / AnalysisResult: active chord (times in seconds) ---
  chords,             \* analysis.chords: the events' seconds and duration
  currentTime,        \* React state currentTime
  \* --- chord display ---
  chord,              \* a ChordEvent: root, quality, extension, bass, symbol
  complexity,         \* React state complexity: the AnalysisLevel shown
  displayed,          \* the chord name rendered for chord at complexity
  \* --- the revisions of extractJSON ---
  revision,           \* which revision of extractJSON is called
  modelText,          \* the text handed to it
  extractResult,      \* its outcome: pending / returned value / thrown
  \* --- model failover (generateWithFailover) ---
  modelOutcomes,      \* outcome of the 1st, 2nd, ... generateContent call of the request
  attempt,            \* the attempt argument of the running invocation
  called,             \* the model ids given to generateContent so far, in order
  failover,           \* where generateWithFailover stands: calling / waiting / returned / thrown
  switchDelays,       \* the delay(ms) waits completed so far
  failoverResult,     \* number of the call whose response was returned (0: none)
  failoverError,      \* message of the error thrown to the caller (<<>>: none)
  \* --- gridMarkers (times in half seconds) ---
  gridBpm,            \* analysis.bpm
  gridSignature,      \* analysis.timeSignature
  gridDuration,       \* the duration prop, in seconds
  gridT,              \* the loop variable t
  markers,            \* the times of the markers pushed so far
  gridPc              \* where gridMarkers stands: idle / call / loop / overrun / done

jsonVars == <<responseText, isolated, extracted>>
retryVars == <<script, rpc, retries, calls, delays, retResult, rethrown>>
appVars == <<status, analysis, error, requests, input, recorders, lastAlert>>

clickVars == <<now, audioTime, audioPaused, endedPending, isPlaying, showMetronome,
               playbackRate, bpm, audioContextRef, nextClickTimeRef, schedulerTimerRef, orphanTimers,
               closure, clicks, userOps, seeked, lastCycle, scheduled,
               animationFrameId, playerCurrentTime, parentCurrentTime, frameDrawn, mounted>>
frameVars == <<animationFrameId, playerCurrentTime, parentCurrentTime, frameDrawn, mounted>>

chordVars == <<chords, currentTime>>
displayVars == <<chord, complexity, displayed>>
extractVars == <<revision, modelText, extractResult>>
failoverVars == <<modelOutcomes, attempt, called, failover, switchDelays, failoverResult,
                  failoverError>>
gridVars == <<gridBpm, gridSignature, gridDuration, gridT, markers, gridPc>>

vars == <<jsonVars, retryVars, appVars, clickVars, chordVars, displayVars, extractVars, failoverVars, gridVars>>

notJsonVars == <<retryVars, appVars, clickVars, chordVars, displayVars, extractVars, failoverVars, gridVars>>
notRetryVars == <<jsonVars, appVars, clickVars, chordVars, displayVars, extractVars, failoverVars, gridVars>>
notAppVars == <<jsonVars, retryVars, clickVars, chordVars, displayVars, extractVars, failoverVars, gridVars>>
notClickVars == <<jsonVars, retryVars, appVars, chordVars, displayVars, extractVars, failoverVars, gridVars>>
notChordVars == <<jsonVars, retryVars, appVars, clickVars, displayVars, extractVars, failoverVars, gridVars>>
notDisplayVars == <<jsonVars, retryVars, appVars, clickVars, chordVars, extractVars, failoverVars, gridVars>>
notExtractVars == <<jsonVars, retryVars, appVars, clickVars, chordVars, displayVars, failoverVars, gridVars>>
notFailoverVars == <<jsonVars, retryVars, appVars, clickVars, chordVars, displayVars, extractVars, gridVars>>
notGridVars == <<jsonVars, retryVars, appVars, clickVars, chordVars, displayVars, extractVars, failoverVars>>

-----------------------------------------------------------------------------
(* JavaScript string primitives, on sequences of characters.               *)

\* character at 1-based position i, "" past either end
At(s, i) == IF i \in 1..Len(s) THEN s[i] ELSE ""

IsWs(c) == c \in {" ", "\n", "\t", "\r"}

RECURSIVE TrimStart(_)
TrimStart(s) == IF s # <<>> /\ IsWs(s[1]) THEN TrimStart(Tail(s)) ELSE s

RECURSIVE TrimEnd(_)
TrimEnd(s) ==
  IF s # <<>> /\ IsWs(s[Len(s)]) THEN TrimEnd(SubSeq(s, 1, Len(s) - 1)) ELSE s

\* String.prototype.trim
Trim(s) == TrimEnd(TrimStart(s))

\* does pat occur in s starting at 1-based position i
MatchAt(s, pat, i) ==
  /\ i + Len(pat) - 1 <= Len(s)
  /\ \A k \in 1..Len(pat) : s[i + k - 1] = pat[k]

\* String.prototype.includes
Includes(s, pat) == \E i \in 1..(Len(s) + 1) : MatchAt(s, pat, i)

\* s.replace(/pat/g, ''): every occurrence, left to right, non-overlapping
RECURSIVE RemoveAll(_, _)
RemoveAll(s, pat) ==
  IF s = <<>> THEN <<>>
  ELSE IF MatchAt(s, pat, 1)
       THEN RemoveAll(SubSeq(s, Len(pat) + 1, Len(s)), pat)
       ELSE <<s[1]>> \o RemoveAll(Tail(s), pat)

\* String.prototype.indexOf for one character: 0-based, -1 when absent
IndexOf(s, c) ==
  IF \E i \in 1..Len(s) : s[i] = c
  THEN (CHOOSE i \in 1..Len(s) : s[i] = c /\ \A j \in 1..(i - 1) : s[j] # c) - 1
  ELSE -1

\* String.prototype.lastIndexOf for one character: 0-based, -1 when absent
LastIndexOf(s, c) ==
  IF \E i \in 1..Len(s) : s[i] = c
  THEN (CHOOSE i \in 1..Len(s) : s[i] = c /\ \A j \in (i + 1)..Len(s) : s[j] # c) - 1
  ELSE -1

Clamp(x, lo, hi) == IF x < lo THEN lo ELSE IF x > hi THEN hi ELSE x

\* String.prototype.substring(a, b): 0-based, clamps both and swaps when a > b
Substring(s, a, b) ==
  LET ca == Clamp(a, 0, Len(s))
      cb == Clamp(b, 0, Len(s))
      lo == IF ca <= cb THEN ca ELSE cb
      hi == IF ca <= cb THEN cb ELSE ca
  IN  SubSeq(s, lo + 1, hi)

-----------------------------------------------------------------------------
(* JSON.parse (ECMA-404) on the characters the model draws from: objects,  *)
(* arrays, strings without escapes, unsigned integers, null/true/false and *)
(* whitespace.  A parsed value is represented by its canonical text (the   *)
(* text with the insignificant whitespace dropped), so two values are      *)
(* equal exactly when their representations are.                           *)

Digits == {"0", "1", "2", "3", "4", "5", "6", "7", "8", "9"}

RECURSIVE SkipWs(_, _)
SkipWs(s, i) == IF IsWs(At(s, i)) THEN SkipWs(s, i + 1) ELSE i

\* position after the closing quote of the string opening at i, 0 on error
RECURSIVE StringEnd(_, _)
StringEnd(s, i) ==
  IF i > Len(s) THEN 0
  ELSE IF s[i] = "\"" THEN i + 1
  ELSE IF s[i] \in {"\n", "\t", "\r", "\\"} THEN 0
  ELSE StringEnd(s, i + 1)

ParseString(s, i) == IF At(s, i) = "\"" THEN StringEnd(s, i + 1) ELSE 0

RECURSIVE DigitsEnd(_, _)
DigitsEnd(s, i) == IF At(s, i) \in Digits THEN DigitsEnd(s, i + 1) ELSE i

ParseNumber(s, i) ==
  IF At(s, i) = "0" THEN i + 1
  ELSE IF At(s, i) \in Digits THEN DigitsEnd(s, i + 1)
  ELSE 0

ParseLiteral(s, i, word) == IF MatchAt(s, word, i) THEN i + Len(word) ELSE 0

RECURSIVE ParseValue(_, _), ParseMembers(_, _), ParseElements(_, _)
\* position after the value starting at i, 0 on a syntax error
ParseValue(s, i) ==
  LET c == At(s, i) IN
  IF c = "{" THEN
      LET j == SkipWs(s, i + 1)
      IN  IF At(s, j) = "}" THEN j + 1 ELSE ParseMembers(s, j)
  ELSE IF c = "[" THEN
      LET j == SkipWs(s, i + 1)
      IN  IF At(s, j) = "]" THEN j + 1 ELSE ParseElements(s, j)
  ELSE IF c = "\"" THEN ParseString(s, i)
  ELSE IF c \in Digits THEN ParseNumber(s, i)
  ELSE IF c = "n" THEN ParseLiteral(s, i, <<"n", "u", "l", "l">>)
  ELSE IF c = "t" THEN ParseLiteral(s, i, <<"t", "r", "u", "e">>)
  ELSE IF c = "f" THEN ParseLiteral(s, i, <<"f", "a", "l", "s", "e">>)
  ELSE 0

ParseMembers(s, i) ==
  LET k == ParseString(s, i) IN
  IF k = 0 THEN 0
  ELSE LET c == SkipWs(s, k) IN
       IF At(s, c) # ":" THEN 0
       ELSE LET e == ParseValue(s, SkipWs(s, c + 1)) IN
            IF e = 0 THEN 0
            ELSE LET n == SkipWs(s, e) IN
                 IF At(s, n) = "," THEN ParseMembers(s, SkipWs(s, n + 1))
                 ELSE IF At(s, n) = "}" THEN n + 1
                 ELSE 0

ParseElements(s, i) ==
  LET e == ParseValue(s, i) IN
  IF e = 0 THEN 0
  ELSE LET n == SkipWs(s, e) IN
       IF At(s, n) = "," THEN ParseElements(s, SkipWs(s, n + 1))
       ELSE IF At(s, n) = "]" THEN n + 1
       ELSE 0

\* the text without the whitespace that stands outside string literals
RECURSIVE Canonical(_, _)
Canonical(s, inString) ==
  IF s = <<>> THEN <<>>
  ELSE IF s[1] = "\"" THEN <<s[1]>> \o Canonical(Tail(s), ~inString)
  ELSE IF IsWs(s[1]) /\ ~inString THEN Canonical(Tail(s), inString)
  ELSE <<s[1]>> \o Canonical(Tail(s), inString)

\* JSON.parse(s): [ok |-> TRUE, val |-> value] or [ok |-> FALSE] (SyntaxError)
JSONparse(s) ==
  LET e == ParseValue(s, SkipWs(s, 1)) IN
  IF e # 0 /\ SkipWs(s, e) = Len(s) + 1
  THEN [ok |-> TRUE, val |-> Canonical(s, FALSE)]
  ELSE [ok |-> FALSE, val |-> <<>>]

\* JavaScript truthiness of a parsed JSON value
Falsy(val) ==
  val \in { <<"n", "u", "l", "l">>, <<"f", "a", "l", "s", "e">>, <<"0">>, <<"\"", "\"">> }

-----------------------------------------------------------------------------
(* extractJSON, services/geminiService.ts.                                 *)

Pending == [kind |-> "pending", val |-> <<>>]
Returned(v) == [kind |-> "ok", val |-> v]
Thrown(msg) == [kind |-> "throw", val |-> <<msg>>]

\* the backtick character (an atom: the lexer takes no backtick inside a string)
Backtick == "BACKTICK"
Fence == <<Backtick, Backtick, Backtick>>
FenceJson == Fence \o <<"j", "s", "o", "n">>

ErrEmptyResponse == "Empty response from AI"
ErrInvalidJSON == "Analysis failed to produce valid JSON data. Please try again."

extractJSON(text) ==
  IF text = <<>> THEN Thrown(ErrEmptyResponse)
  ELSE
    LET trimmed == Trim(text)
        noFence == RemoveAll(RemoveAll(trimmed, FenceJson), Fence)
        firstBrace == IndexOf(noFence, "{")
        lastBrace == LastIndexOf(noFence, "}")
        cleanText == IF firstBrace # -1 /\ lastBrace # -1
                     THEN Substring(noFence, firstBrace, lastBrace + 1)
                     ELSE noFence
        parsed == JSONparse(cleanText)
    IN  IF parsed.ok THEN Returned(parsed.val) ELSE Thrown(ErrInvalidJSON)

(* The responses the model may give: a body, optionally fenced, optionally  *)
(* with prose before and after.                                            *)

Q == "\""

ValidObjects ==
  { <<"{", "}">>,
    <<"{", Q, "a", Q, ":", "1", "}">>,
    <<"{", " ", Q, "a", Q, " ", ":", " ", "1", "0", "\n", "}">>,
    <<"{", Q, "a", Q, ":", Q, "b", " ", "c", Q, "}">>,
    <<"{", Q, "a", Q, ":", "{", Q, "b", Q, ":", "n", "u", "l", "l", "}", "}">>,
    <<"{", Q, "k", Q, ":", Q, "C", Q, ",", Q, "c", Q, ":", "[", "]", "}">>,
    <<"{", Q, "a", Q, ":", "[", "t", "r", "u", "e", ",", " ", "2", "]", "}">>,
    <<"{", Q, "a", Q, ":", Q, "x", "}", Q, "}">>,
    <<"{", Q, "a", Q, ":", Q, Backtick, Backtick, Backtick, Q, "}">> }

MalformedBodies ==
  { <<"{", Q, "a", Q, ":", "1", ",", "}">>,
    <<"{", "a", ":", "1", "}">>,
    <<"{", Q, "a", Q, ":", "}">>,
    <<"n", "u", "l", "l">>,
    <<>> }

Bodies == ValidObjects \cup MalformedBodies

ProseBefore ==
  { <<>>,
    <<"H", "e", "r", "e", ":", "\n">>,
    <<"s", "e", "e", " ", "{", "x", "}", " ">> }

ProseAfter ==
  { <<>>,
    <<"\n", "D", "o", "n", "e", ".">>,
    <<" ", ":", "}">> }

FenceOpen == { <<>>, FenceJson \o <<"\n">>, Fence \o <<"\n">> }
FenceClose == { <<>>, <<"\n">> \o Fence }

Wrap(before, open, body, close, after) == before \o open \o body \o close \o after

\* the model answers: response.text becomes a wrapped body
ReceiveResponse ==
  \E body \in Bodies, before \in ProseBefore, after \in ProseAfter,
     open \in FenceOpen, close \in FenceClose :
    /\ responseText' = Wrap(before, open, body, close, after)
    /\ isolated' = body
    /\ extracted' = Pending
    /\ UNCHANGED notJsonVars

\* analyzeAudioContent / analyzeSongFromUrl: return extractJSON(response.text)
ExtractJSON ==
  /\ extracted = Pending
  /\ extracted' = extractJSON(responseText)
  /\ UNCHANGED <<responseText, isolated>>
  /\ UNCHANGED notJsonVars

JsonIdle ==
  /\ responseText = <<>>
  /\ isolated = <<>>
  /\ extracted = Pending

-----------------------------------------------------------------------------
(* generateWithRetry, services/geminiService.ts.                           *)

MAX_RETRIES == 3
BASE_DELAY == 2000

\* how many call outcomes a script fixes in advance
ScriptLen == 5

OkResponse == <<"o", "k">>
\* a response that arrives with an empty text
EmptyResponse == <<"e", "m", "p", "t", "y">>

ErrorMessages ==
  { <<"5", "0", "3">>,
    <<"4", "2", "9">>,
    <<"B", "u", "s", "y">>,
    <<"O", "v", "e", "r", "l", "o", "a", "d", "e", "d">>,
    <<"4", "0", "0">> }

CallOutcomes == {OkResponse, EmptyResponse} \cup ErrorMessages

\* await ai.models.generateContent(...) resolves
Resolves(o) == o \in {OkResponse, EmptyResponse}

Scripts == [1..ScriptLen -> CallOutcomes]

RECURSIVE Pow2(_)
Pow2(n) == IF n = 0 THEN 1 ELSE 2 * Pow2(n - 1)

isTransient(msg) ==
  \/ Includes(msg, <<"5", "0", "3">>)
  \/ Includes(msg, <<"4", "2", "9">>)
  \/ Includes(msg, <<"B", "u", "s", "y">>)
  \/ Includes(msg, <<"O", "v", "e", "r", "l", "o", "a", "d", "e", "d">>)

ShouldRetryOffByOne(msg, n) == isTransient(msg) /\ n <= MAX_RETRIES
\* the condition of the retry branch
ShouldRetry(msg, n) == isTransient(msg) /\ n < MAX_RETRIES

WaitTimeLinear(n) == BASE_DELAY * (n + 1)
\* const waitTime = BASE_DELAY * Math.pow(2, retries)
WaitTime(n) == BASE_DELAY * Pow2(n)

RetryDone == rpc \in {"returned", "thrown"}

\* await ai.models.generateContent(...) resolves: the response is returned
CallSucceeds ==
  /\ rpc = "calling"
  /\ calls < ScriptLen
  /\ Resolves(script[calls + 1])
  /\ calls' = calls + 1
  /\ retResult' = calls + 1
  /\ rpc' = "returned"
  /\ UNCHANGED <<script, retries, delays, rethrown>>
  /\ UNCHANGED notRetryVars

\* await ai.models.generateContent(...) rejects: the catch block runs
CallFails ==
  /\ rpc = "calling"
  /\ calls < ScriptLen
  /\ ~Resolves(script[calls + 1])
  /\ calls' = calls + 1
  /\ IF ShouldRetry(script[calls + 1], retries)
     THEN /\ rpc' = "waiting"
          /\ UNCHANGED rethrown
     ELSE /\ rpc' = "thrown"
          /\ rethrown' = script[calls + 1]
  /\ UNCHANGED <<script, retries, delays, retResult>>
  /\ UNCHANGED notRetryVars

\* await delay(waitTime) resolves: generateWithRetry(contents, config, retries + 1)
DelayElapses ==
  /\ rpc = "waiting"
  /\ delays' = Append(delays, WaitTime(retries))
  /\ retries' = retries + 1
  /\ rpc' = "calling"
  /\ UNCHANGED <<script, calls, retResult, rethrown>>
  /\ UNCHANGED notRetryVars

(* generateWithRetry of part_001:49-65 (the same code stands at             *)
(* geminiService.ts:426-441 and part_003:76-92): an empty text is thrown   *)
(* as an error inside the try, and every error is retried.                 *)

ErrModelEmpty == <<"M", "o", "d", "e", "l", " ", "r", "e", "t", "u", "r", "n", "e", "d", " ", "e", "m", "p", "t", "y", " ", "r", "e", "s", "p", "o", "n", "s", "e">>

\* the error the catch block of that revision receives for outcome o
CaughtError(o) == IF o = EmptyResponse THEN ErrModelEmpty ELSE o

\* the call resolves with a text: return result
CallReturnsText ==
  /\ rpc = "calling"
  /\ calls < ScriptLen
  /\ script[calls + 1] = OkResponse
  /\ calls' = calls + 1
  /\ retResult' = calls + 1
  /\ rpc' = "returned"
  /\ UNCHANGED <<script, retries, delays, rethrown>>
  /\ UNCHANGED notRetryVars

\* the call rejects, or resolves without text: if (retries < MAX_RETRIES)
CallFailsOrEmpty ==
  /\ rpc = "calling"
  /\ calls < ScriptLen
  /\ script[calls + 1] # OkResponse
  /\ calls' = calls + 1
  /\ IF retries < MAX_RETRIES
     THEN /\ rpc' = "waiting"
          /\ UNCHANGED rethrown
     ELSE /\ rpc' = "thrown"
          /\ rethrown' = CaughtError(script[calls + 1])
  /\ UNCHANGED <<script, retries, delays, retResult>>
  /\ UNCHANGED notRetryVars

RetryIdle ==
  /\ script = <<>>
  /\ rpc = "idle"
  /\ retries = 0
  /\ calls = 0
  /\ delays = <<>>
  /\ retResult = 0
  /\ rethrown = <<>>

\* generateWithRetry(contents, config) is entered with retries = 0
RetryInit ==
  /\ script \in Scripts
  /\ rpc = "calling"
  /\ retries = 0
  /\ calls = 0
  /\ delays = <<>>
  /\ retResult = 0
  /\ rethrown = <<>>

-----------------------------------------------------------------------------
(* App (App.tsx) and AudioInput (components/AudioInput.tsx).               *)

MAX_FILE_SIZE == 9961472

\* how many processAudio / processLink invocations may run side by side
MaxRequests == 2
\* how many MediaRecorder objects may exist side by side
MaxRecorders == 1

JsNull == <<"n", "u", "l", "l">>

AlertFileTooLarge ==
  "File is too large. Please upload an audio file smaller than 9.5MB for AI processing."
AlertRecordingTooLong == "Recording is too long. Please record a shorter clip."
AlertMicDenied == "Microphone access denied. Please check permissions."

\* e.target.files[0].size and blob.size; NoFile: the picker was cancelled
NoFile == 0 - 1
FileSizes == {NoFile, 1, MAX_FILE_SIZE - 1, MAX_FILE_SIZE, MAX_FILE_SIZE + 1}

\* what the user may type into the link field
LinkInputs == { <<>>, <<" ">>, <<"u">> }

\* response.text of the call made by analyzeAudioContent / analyzeSongFromUrl
AppResponses ==
  { <<"{", Q, "a", Q, ":", "1", "}">>,
    JsNull,
    <<"{">>,
    <<>> }

\* error.message of a failure that generateWithRetry rethrows
AppFailures == { <<"5", "0", "3">>, <<"4", "2", "9">>, <<"4", "0", "4">> }

ErrUnexpected == "An unexpected error occurred during analysis."
ErrModelUnavailable == "Model unavailable. Please try again later."
ErrTrafficHigh == "Server traffic high. Please wait a moment."
ErrLinkPrefix == "Link analysis failed: "

\* the state a newly mounted AudioInput starts in
FreshInput == [tab |-> "upload", isRecording |-> FALSE, linkUrl |-> <<>>, ref |-> 0]

FreeRecorder == [st |-> "free", own |-> FALSE, live |-> FALSE]

\* AudioInput is rendered only while status is IDLE
InputMounted == status = "IDLE"

\* the reset button of the ERROR panel or of the COMPLETE panel is rendered
ResetRendered ==
  \/ status = "ERROR"
  \/ status = "COMPLETE" /\ ~Falsy(analysis)

Outstanding == {i \in 1..Len(requests) : requests[i].pc = "analyzing"}

RemoveAt(seq, i) == SubSeq(seq, 1, i - 1) \o SubSeq(seq, i + 1, Len(seq))

\* setStatus(s): leaving IDLE unmounts AudioInput, whose state is dropped; the
\* recorders it created live on without an owner
SetStatus(s, recs) ==
  /\ status' = s
  /\ IF s = "IDLE"
     THEN /\ input' = input
          /\ recorders' = recs
     ELSE /\ input' = FreshInput
          /\ recorders' = [r \in DOMAIN recs |-> [recs[r] EXCEPT !.own = FALSE]]

\* audio.duration of an element that failed to load
NaN == 0 - 2
\* the duration of an invocation that has not measured it yet
NoDuration == 0 - 1

\* what new Audio() does with the file: onloadedmetadata with a duration in
\* seconds, or onerror
AudioLoads == { [loaded |-> TRUE, duration |-> 3], [loaded |-> FALSE, duration |-> NaN] }

getAudioDurationUnguarded(a) == a.duration
\* getAudioDuration: resolve(audio.duration) / onerror: resolve(0)
getAudioDuration(a) == IF a.loaded THEN a.duration ELSE 0

\* a new invocation joins the running ones; latest marks the one started last;
\* processLink sets the metadata's duration to 0
StartRequest(reqs, kind, pc) ==
  Append([r \in DOMAIN reqs |-> [reqs[r] EXCEPT !.latest = FALSE]],
         [kind |-> kind, pc |-> pc, latest |-> TRUE, loadFailed |-> FALSE,
          duration |-> IF kind = "link" THEN 0 ELSE NoDuration])

\* processAudio up to its first await
processAudio(recs) ==
  /\ Len(requests) < MaxRequests
  /\ SetStatus("PROCESSING_AUDIO", recs)
  /\ error' = JsNull
  /\ analysis' = JsNull
  /\ requests' = StartRequest(requests, "audio", "preparing")

\* processLink up to its await: analyzeSongFromUrl has issued the request
processLink ==
  /\ Len(requests) < MaxRequests
  /\ SetStatus("ANALYZING_AI", recorders)
  /\ error' = JsNull
  /\ analysis' = JsNull
  /\ requests' = StartRequest(requests, "link", "analyzing")

\* the tab buttons
SetActiveTab(tab) ==
  /\ InputMounted
  /\ tab \in {"upload", "link"} => ~input.isRecording
  /\ input' = [input EXCEPT !.tab = tab]
  /\ UNCHANGED <<status, analysis, error, requests, recorders, lastAlert>>
  /\ UNCHANGED notAppVars

FileTooLargeInclusive(size) == size >= MAX_FILE_SIZE
\* if (file.size > MAX_FILE_SIZE)
FileTooLarge(size) == size > MAX_FILE_SIZE

\* if (blob.size > MAX_FILE_SIZE)
RecordingTooLarge(size) == size > MAX_FILE_SIZE

handleFileUpload(size) ==
  /\ InputMounted
  /\ input.tab = "upload"
  /\ IF size = NoFile
     THEN UNCHANGED appVars
     ELSE IF FileTooLarge(size)
     THEN /\ lastAlert' = AlertFileTooLarge
          /\ UNCHANGED <<status, analysis, error, requests, input, recorders>>
     ELSE /\ processAudio(recorders)
          /\ UNCHANGED lastAlert
  /\ UNCHANGED notAppVars

\* startRecording up to await navigator.mediaDevices.getUserMedia
startRecording ==
  /\ InputMounted
  /\ input.tab = "mic"
  /\ ~input.isRecording
  /\ \E r \in 1..MaxRecorders :
       /\ recorders[r].st = "free"
       /\ recorders' = [recorders EXCEPT ![r] = [st |-> "asking", own |-> TRUE, live |-> FALSE]]
  /\ UNCHANGED <<status, analysis, error, requests, input, lastAlert>>
  /\ UNCHANGED notAppVars

\* getUserMedia resolves: the recorder is created and started
MicGranted(r) ==
  /\ recorders[r].st = "asking"
  /\ recorders' = [recorders EXCEPT ![r].st = "recording", ![r].live = TRUE]
  /\ input' = IF recorders[r].own
              THEN [input EXCEPT !.ref = r, !.isRecording = TRUE]
              ELSE input
  /\ UNCHANGED <<status, analysis, error, requests, lastAlert>>
  /\ UNCHANGED notAppVars

\* getUserMedia rejects: the catch block of startRecording
MicDenied(r) ==
  /\ recorders[r].st = "asking"
  /\ recorders' = [recorders EXCEPT ![r] = FreeRecorder]
  /\ lastAlert' = AlertMicDenied
  /\ UNCHANGED <<status, analysis, error, requests, input>>
  /\ UNCHANGED notAppVars

stopRecording ==
  /\ InputMounted
  /\ input.tab = "mic"
  /\ input.isRecording
  /\ input.ref # 0
  /\ recorders[input.ref].st = "recording"   \* the recorder isRecording stands for
  /\ recorders' = [recorders EXCEPT ![input.ref].st = "stopping"]
  /\ input' = [input EXCEPT !.isRecording = FALSE]
  /\ UNCHANGED <<status, analysis, error, requests, lastAlert>>
  /\ UNCHANGED notAppVars

\* mediaRecorder.onstop, queued by stop()
onstop(r, size) ==
  /\ recorders[r].st = "stopping"
  /\ size # NoFile
  /\ IF RecordingTooLarge(size)
     THEN /\ lastAlert' = AlertRecordingTooLong
          /\ recorders' = [recorders EXCEPT ![r].st = "inactive"]
          /\ UNCHANGED <<status, analysis, error, requests, input>>
     ELSE /\ processAudio([recorders EXCEPT ![r] = FreeRecorder])
          /\ UNCHANGED lastAlert
  /\ UNCHANGED notAppVars

\* the link field's onChange
SetLinkUrl(u) ==
  /\ InputMounted
  /\ input.tab = "link"
  /\ input' = [input EXCEPT !.linkUrl = u]
  /\ UNCHANGED <<status, analysis, error, requests, recorders, lastAlert>>
  /\ UNCHANGED notAppVars

handleLinkSubmit ==
  /\ InputMounted
  /\ input.tab = "link"
  /\ input.linkUrl # <<>>
  /\ IF Trim(input.linkUrl) = <<>>
     THEN UNCHANGED appVars
     ELSE /\ processLink
          /\ UNCHANGED lastAlert
  /\ UNCHANGED notAppVars

\* processAudio: Promise.all([fileToBase64, getAudioDuration]) resolves and
\* analyzeAudioContent issues the request
PrepareDone(i, a) ==
  /\ i \in 1..Len(requests)
  /\ requests[i].pc = "preparing"
  /\ SetStatus("ANALYZING_AI", recorders)
  /\ requests' = [requests EXCEPT ![i].pc = "analyzing",
                                   ![i].loadFailed = ~a.loaded,
                                   ![i].duration = getAudioDuration(a)]
  /\ UNCHANGED <<analysis, error, lastAlert>>
  /\ UNCHANGED notAppVars

\* processAudio: fileToBase64 rejects (reader.onerror) and the catch block runs
PrepareFails(i) ==
  /\ i \in 1..Len(requests)
  /\ requests[i].pc = "preparing"
  /\ SetStatus("ERROR", recorders)
  /\ error' = <<ErrUnexpected>>
  /\ requests' = RemoveAt(requests, i)
  /\ UNCHANGED <<analysis, lastAlert>>
  /\ UNCHANGED notAppVars

\* the message analyzeAudioContent / analyzeSongFromUrl rethrow for a caught error
AnalysisError(kind, msg) ==
  IF kind = "link" THEN <<ErrLinkPrefix>> \o msg
  ELSE IF Includes(msg, <<"4", "2", "9">>) THEN <<ErrTrafficHigh>>
  ELSE IF Includes(msg, <<"4", "0", "4">>) THEN <<ErrModelUnavailable>>
  ELSE msg

\* the request of invocation i settles with outcome (of generateWithRetry
\* followed by extractJSON) and the rest of processAudio / processLink runs
Settle(i, outcome) ==
  /\ IF outcome.kind = "ok"
     THEN /\ analysis' = outcome.val
          /\ SetStatus("COMPLETE", recorders)
          /\ UNCHANGED error
     ELSE /\ SetStatus("ERROR", recorders)
          /\ error' = AnalysisError(requests[i].kind, outcome.val)
          /\ UNCHANGED analysis
  /\ requests' = RemoveAt(requests, i)
  /\ UNCHANGED lastAlert
  /\ UNCHANGED notAppVars

\* generateWithRetry returns a response and extractJSON is applied to its text
RequestAnswered(i) ==
  /\ i \in 1..Len(requests)
  /\ requests[i].pc = "analyzing"
  /\ \E text \in AppResponses :
       Settle(i, extractJSON(text))

\* generateWithRetry throws
RequestFails(i) ==
  /\ i \in 1..Len(requests)
  /\ requests[i].pc = "analyzing"
  /\ \E msg \in AppFailures : Settle(i, [kind |-> "throw", val |-> msg])

handleReset ==
  /\ ResetRendered
  /\ status' = "IDLE"
  /\ analysis' = JsNull
  /\ error' = JsNull
  /\ UNCHANGED <<requests, input, recorders, lastAlert>>
  /\ UNCHANGED notAppVars

AppIdle ==
  /\ status = "IDLE"
  /\ analysis = JsNull
  /\ error = JsNull
  /\ requests = <<>>
  /\ input = FreshInput
  /\ recorders = [r \in 1..MaxRecorders |-> FreeRecorder]
  /\ lastAlert = ""

-----------------------------------------------------------------------------
(* MoisesPlayer: the phase-locked metronome (click scheduler).             *)
(* Time is counted in ticks of 12.5 ms, so that 0.5x playback advances the *)
(* audio by whole ticks; the clock is observed every 25 ms.                *)

\* ticks in 60 seconds
TicksPerMinute == 4800
\* const lookahead = 25.0 (ms)
Lookahead == 2
\* const scheduleAheadTime = 0.1 (sec)
ScheduleAheadTime == 8
\* the snap tolerance 0.2 (sec)
SnapTolerance == 16

\* the clock stops here
MaxTime == 26
\* the user operates at most this many controls
MaxUserOps == 3
\* duration of the audio, in ticks
AudioDuration == 36
\* a timeout fires at most this many ticks late
MaxJitter == 0

BpmChoices == {0, 240}
\* the speed slider, in halves
RateHalves == {1, 2}
\* values of the seek slider
SeekTargets == {0, 5, 18}

NoTimer == 0 - 1
NoSchedule == [at |-> 0, audio |-> 0, rate |-> 2, starts |-> <<>>]
NoCycle == [afterSeek |-> FALSE, at |-> 0, audio |-> 0, rate |-> 2, before |-> 0, anchor |-> 0]

Abs(x) == IF x < 0 THEN 0 - x ELSE x

\* Math.ceil(a / b) for a >= 0, b > 0
CeilDiv(a, b) == (a + b - 1) \div b

\* const secondsPerBeat = 60.0 / (analysis.bpm || 120)
SecondsPerBeat == TicksPerMinute \div (IF bpm = 0 THEN 120 ELSE bpm)

\* secondsPerBeat / playbackRate
SecondsPerBeatScaled(rate) == (SecondsPerBeat * 2) \div rate

\* targetCtxTime: the clock time of the next beat boundary of the audio
TargetCtxTime(ctxNow, currentAudioTime, rate) ==
  LET nextBeatIndex == CeilDiv(currentAudioTime, SecondsPerBeat)
      nextBeatAudioTime == nextBeatIndex * SecondsPerBeat
      timeUntilNextBeat == ((nextBeatAudioTime - currentAudioTime) * 2) \div rate
  IN  ctxNow + timeUntilNextBeat

SnapAlways(next, target) == target
SnapWide(next, target) == IF Abs(next - target) > 3 * SnapTolerance THEN target ELSE next
\* if (Math.abs(nextClickTimeRef.current - targetCtxTime) > 0.2) snap
Snap(next, target) == IF Abs(next - target) > SnapTolerance THEN target ELSE next

\* the while loop: the start times it schedules from next on
RECURSIVE ScheduleQueue(_, _, _)
ScheduleQueue(next, limit, step) ==
  IF next < limit THEN <<next>> \o ScheduleQueue(next + step, limit, step) ELSE <<>>

\* osc.start(t) for every t of queue: clicks maps a start time to the number
\* of oscillators started at it
RECURSIVE Started(_, _)
Started(cl, queue) ==
  IF queue = <<>> THEN cl
  ELSE LET t == Head(queue)
           one == IF t \in DOMAIN cl
                  THEN [cl EXCEPT ![t] = 2]   \* 2 stands for "more than once"
                  ELSE [x \in DOMAIN cl \cup {t} |-> IF x = t THEN 1 ELSE cl[x]]
       IN  Started(one, Tail(queue))

\* scheduleClicks of render c, entered with nextClickTimeRef.current = next,
\* the AudioContext existing or not, audioRef.current.currentTime = audio, and
\* pending the timeout of the ref that is still to fire (NoTimer: none).
\* window.setTimeout makes a new timeout and the ref is overwritten with it:
\* a timeout still pending then stays pending without a name
scheduleClicks(c, next, ctx, audio, pending) ==
  IF ~ctx \/ ~c.isPlaying \/ ~c.showMetronome
  THEN /\ nextClickTimeRef' = next
       /\ schedulerTimerRef' = pending
       /\ UNCHANGED <<clicks, seeked, lastCycle, scheduled, orphanTimers>>
  ELSE LET target == TargetCtxTime(now, audio, c.playbackRate)
           anchor == Snap(next, target)
           step == SecondsPerBeatScaled(c.playbackRate)
           queue == ScheduleQueue(anchor, now + ScheduleAheadTime, step)
       IN  /\ clicks' = Started(clicks, queue)
           /\ nextClickTimeRef' = anchor + Len(queue) * step
           /\ schedulerTimerRef' = now + Lookahead
           /\ orphanTimers' = IF pending # NoTimer THEN orphanTimers + 1 ELSE orphanTimers
           /\ seeked' = FALSE
           /\ scheduled' = [at |-> now, audio |-> audio, rate |-> c.playbackRate,
                            starts |-> queue]
           /\ lastCycle' = IF seeked
                            THEN [afterSeek |-> TRUE, at |-> now, audio |-> audio,
                                  rate |-> c.playbackRate, before |-> next, anchor |-> anchor]
                            ELSE NoCycle

\* the cleanup of the metronome effect: clearTimeout(schedulerTimerRef.current)
MetronomeCleanupKeepsTimer == schedulerTimerRef' = schedulerTimerRef
MetronomeCleanup == schedulerTimerRef' = NoTimer

\* the timeout left pending by clearTimeout(t): none
clearTimeoutIgnored(t) == t
clearTimeout(t) == NoTimer

\* the effect on [isPlaying, showMetronome, playbackRate]: cleanup of the
\* previous run, then the body with the new render c
MetronomeEffect(c, audio) ==
  /\ closure' = c
  /\ IF c.isPlaying /\ c.showMetronome
     THEN /\ audioContextRef' = TRUE
          /\ scheduleClicks(c, now, TRUE, audio, clearTimeout(schedulerTimerRef))
     ELSE /\ MetronomeCleanup
          /\ UNCHANGED <<audioContextRef, nextClickTimeRef, clicks, seeked, lastCycle, scheduled,
                         orphanTimers>>

Render(playing, metronome, rate) ==
  [isPlaying |-> playing, showMetronome |-> metronome, playbackRate |-> rate]

\* 25 ms pass
Tick ==
  /\ now < MaxTime
  /\ schedulerTimerRef # NoTimer => now < schedulerTimerRef + MaxJitter + 1
  /\ ~endedPending
  /\ animationFrameId => frameDrawn
  /\ frameDrawn' = FALSE
  /\ now' = now + Lookahead
  /\ IF audioPaused
     THEN UNCHANGED <<audioTime, audioPaused, endedPending>>
     ELSE LET t == audioTime + (Lookahead * playbackRate) \div 2 IN
          IF t >= AudioDuration
          THEN /\ audioTime' = AudioDuration
               /\ audioPaused' = TRUE
               /\ endedPending' = TRUE
          ELSE /\ audioTime' = t
               /\ UNCHANGED <<audioPaused, endedPending>>
  /\ UNCHANGED <<isPlaying, showMetronome, playbackRate, bpm, audioContextRef,
                 nextClickTimeRef, schedulerTimerRef, orphanTimers, closure, clicks, userOps, seeked,
                 lastCycle, scheduled>>
  /\ UNCHANGED <<animationFrameId, playerCurrentTime, parentCurrentTime, mounted>>
  /\ UNCHANGED notClickVars

\* the timeout set by scheduleClicks fires
TimerFires ==
  /\ schedulerTimerRef # NoTimer
  /\ now >= schedulerTimerRef
  /\ scheduleClicks(closure, nextClickTimeRef, audioContextRef, audioTime, NoTimer)
  /\ UNCHANGED <<now, audioTime, audioPaused, endedPending, isPlaying, showMetronome,
                 playbackRate, bpm, audioContextRef, closure, userOps>>
  /\ UNCHANGED frameVars
  /\ UNCHANGED notClickVars

\* the effect on [isPlaying, onTimeUpdate]: cancelAnimationFrame of the
\* previous run, then requestAnimationFrame(tick) if (isPlaying)
SyncEffect(playing) == animationFrameId' = playing

\* const time = audioRef.current.currentTime, as read by tick
tickTimeElapsed == playerCurrentTime + Lookahead
tickTime == audioTime

\* tick, the requestAnimationFrame callback; one frame is drawn at every
\* observation of the clock
FrameCallback ==
  /\ animationFrameId
  /\ ~frameDrawn
  /\ frameDrawn' = TRUE
  /\ IF ~audioPaused
     THEN /\ playerCurrentTime' = tickTime
          /\ parentCurrentTime' = tickTime
          /\ animationFrameId' = TRUE
     ELSE /\ animationFrameId' = FALSE
          /\ UNCHANGED <<playerCurrentTime, parentCurrentTime>>
  /\ UNCHANGED <<now, audioTime, audioPaused, endedPending, isPlaying, showMetronome,
                 playbackRate, bpm, audioContextRef, nextClickTimeRef, schedulerTimerRef, orphanTimers,
                 closure, clicks, userOps, seeked, lastCycle, scheduled, mounted>>
  /\ UNCHANGED notClickVars

\* the player is removed from the page: both effects' cleanups run
unmount ==
  /\ mounted
  /\ userOps < MaxUserOps
  /\ userOps' = userOps + 1
  /\ mounted' = FALSE
  /\ audioPaused' = TRUE
  /\ endedPending' = FALSE
  /\ SyncEffect(FALSE)
  /\ MetronomeCleanup
  /\ UNCHANGED <<now, audioTime, isPlaying, showMetronome, playbackRate, bpm,
                 audioContextRef, nextClickTimeRef, closure, clicks, seeked, lastCycle,
                 scheduled, playerCurrentTime, parentCurrentTime, frameDrawn, orphanTimers>>
  /\ UNCHANGED notClickVars

togglePlay ==
  /\ mounted
  /\ SyncEffect(~isPlaying)
  /\ UNCHANGED <<playerCurrentTime, parentCurrentTime, frameDrawn, mounted>>
  /\ ~endedPending
  /\ userOps < MaxUserOps
  /\ userOps' = userOps + 1
  /\ IF isPlaying
     THEN /\ audioPaused' = TRUE
          /\ UNCHANGED audioTime
     ELSE /\ audioPaused' = FALSE
          /\ audioTime' = IF audioTime >= AudioDuration THEN 0 ELSE audioTime
  /\ isPlaying' = ~isPlaying
  /\ MetronomeEffect(Render(~isPlaying, showMetronome, playbackRate),
                     IF ~isPlaying /\ audioTime >= AudioDuration THEN 0 ELSE audioTime)
  /\ UNCHANGED <<now, endedPending, showMetronome, playbackRate, bpm>>
  /\ UNCHANGED notClickVars

\* the Smart Click button
toggleMetronome ==
  /\ mounted
  /\ UNCHANGED frameVars
  /\ ~endedPending
  /\ userOps < MaxUserOps
  /\ userOps' = userOps + 1
  /\ showMetronome' = ~showMetronome
  /\ MetronomeEffect(Render(isPlaying, ~showMetronome, playbackRate), audioTime)
  /\ UNCHANGED <<now, audioTime, audioPaused, endedPending, isPlaying, playbackRate, bpm>>
  /\ UNCHANGED notClickVars

\* the speed slider
changeRate(r) ==
  /\ mounted
  /\ UNCHANGED frameVars
  /\ ~endedPending
  /\ userOps < MaxUserOps
  /\ userOps' = userOps + 1
  /\ r # playbackRate
  /\ playbackRate' = r
  /\ MetronomeEffect(Render(isPlaying, showMetronome, r), audioTime)
  /\ UNCHANGED <<now, audioTime, audioPaused, endedPending, isPlaying, showMetronome, bpm>>
  /\ UNCHANGED notClickVars

handleSeek(time) ==
  /\ ~endedPending
  /\ userOps < MaxUserOps
  /\ userOps' = userOps + 1
  /\ time < AudioDuration
  /\ time # audioTime
  /\ audioTime' = time
  /\ playerCurrentTime' = time
  /\ parentCurrentTime' = time
  /\ mounted
  /\ UNCHANGED <<animationFrameId, frameDrawn, mounted>>
  /\ seeked' = (seeked \/ (isPlaying /\ showMetronome))
  /\ UNCHANGED <<now, audioPaused, endedPending, isPlaying, showMetronome, playbackRate, bpm,
                 audioContextRef, nextClickTimeRef, schedulerTimerRef, orphanTimers, closure, clicks,
                 lastCycle, scheduled>>
  /\ UNCHANGED notClickVars

\* the skip buttons jump by 5 seconds
SkipSeconds == 5
TicksPerSecond == TicksPerMinute \div 60
SkipButtons == {0 - SkipSeconds, SkipSeconds}

\* the media element keeps its position within [0, duration]
MediaSeek(t) == IF t < 0 THEN 0 ELSE IF t > AudioDuration THEN AudioDuration ELSE t

\* const newTime = Math.max(0, Math.min(time, duration))
skipTimeClamped(t) == MediaSeek(t)
\* const t = audioRef.current.currentTime - 5 (+ 5), as given to setCurrentTime
skipTime(t) == t

\* the skip buttons: audio.currentTime = t; setCurrentTime(t). The parent's
\* onTimeUpdate is not called. A jump to the end of a playing audio ends it
skip(seconds) ==
  /\ mounted
  /\ ~endedPending
  /\ userOps < MaxUserOps
  /\ userOps' = userOps + 1
  /\ LET t == audioTime + seconds * TicksPerSecond IN
       /\ audioTime' = MediaSeek(t)
       /\ playerCurrentTime' = skipTime(t)
       /\ IF ~audioPaused /\ t >= AudioDuration
          THEN audioPaused' = TRUE /\ endedPending' = TRUE
          ELSE UNCHANGED <<audioPaused, endedPending>>
  /\ seeked' = (seeked \/ (isPlaying /\ showMetronome))
  /\ UNCHANGED <<parentCurrentTime, animationFrameId, frameDrawn, mounted>>
  /\ UNCHANGED <<now, isPlaying, showMetronome, playbackRate, bpm, audioContextRef,
                 nextClickTimeRef, schedulerTimerRef, orphanTimers, closure, clicks,
                 lastCycle, scheduled>>
  /\ UNCHANGED notClickVars

\* onEnded={() => setIsPlaying(false)}
onEnded ==
  /\ endedPending
  /\ mounted
  /\ SyncEffect(FALSE)
  /\ UNCHANGED <<playerCurrentTime, parentCurrentTime, frameDrawn, mounted>>
  /\ endedPending' = FALSE
  /\ isPlaying' = FALSE
  /\ IF isPlaying
     THEN MetronomeEffect(Render(FALSE, showMetronome, playbackRate), audioTime)
     ELSE UNCHANGED <<audioContextRef, nextClickTimeRef, schedulerTimerRef, orphanTimers, closure,
                      clicks, seeked, lastCycle, scheduled>>
  /\ UNCHANGED <<now, audioTime, audioPaused, showMetronome, playbackRate, bpm, userOps>>
  /\ UNCHANGED notClickVars

ClickIdle ==
  /\ now = 0
  /\ audioTime = 0
  /\ audioPaused = TRUE
  /\ endedPending = FALSE
  /\ isPlaying = FALSE
  /\ showMetronome = FALSE
  /\ playbackRate = 2
  /\ bpm = 0
  /\ audioContextRef = FALSE
  /\ nextClickTimeRef = 0
  /\ schedulerTimerRef = NoTimer
  /\ orphanTimers = 0
  /\ closure = Render(FALSE, FALSE, 2)
  /\ clicks = <<>>
  /\ userOps = 0
  /\ seeked = FALSE
  /\ lastCycle = NoCycle
  /\ scheduled = NoSchedule
  /\ animationFrameId = FALSE
  /\ playerCurrentTime = 0
  /\ parentCurrentTime = 0
  /\ frameDrawn = FALSE
  /\ mounted = TRUE

\* the player is mounted for an analysis with some bpm
ClickInit ==
  /\ now = 0
  /\ audioTime = 0
  /\ audioPaused = TRUE
  /\ endedPending = FALSE
  /\ isPlaying = FALSE
  /\ showMetronome = FALSE
  /\ playbackRate = 2
  /\ bpm \in BpmChoices
  /\ audioContextRef = FALSE
  /\ nextClickTimeRef = 0
  /\ schedulerTimerRef = NoTimer
  /\ orphanTimers = 0
  /\ closure = Render(FALSE, FALSE, 2)
  /\ clicks = <<>>
  /\ userOps = 0
  /\ seeked = FALSE
  /\ lastCycle = NoCycle
  /\ scheduled = NoSchedule
  /\ animationFrameId = FALSE
  /\ playerCurrentTime = 0
  /\ parentCurrentTime = 0
  /\ frameDrawn = FALSE
  /\ mounted = TRUE

-----------------------------------------------------------------------------
(* Active chord: MoisesPlayer's lookup and the chord table's row marking.  *)

MaxChords == 3
MaxSeconds == 5
MaxDuration == 2

ChordEvents == [seconds : 0..MaxSeconds, duration : 0..MaxDuration]
ChordLists == UNION { [1..n -> ChordEvents] : n \in 0..MaxChords }
PlayTimes == 0..(MaxSeconds + MaxDuration)

\* the callback of find and the table's isActive:
\* currentTime >= c.seconds && currentTime < c.seconds + c.duration
Contains(c, t) == t >= c.seconds /\ t < c.seconds + c.duration

\* analysis.chords.find(...): the index of the first event the callback
\* accepts, 0 for undefined
activeChord ==
  IF \E i \in 1..Len(chords) : Contains(chords[i], currentTime)
  THEN CHOOSE i \in 1..Len(chords) :
         /\ Contains(chords[i], currentTime)
         /\ \A j \in 1..(i - 1) : ~Contains(chords[j], currentTime)
  ELSE 0

\* timeline block i: isActive = (activeChord === chord), an identity test
TimelineIsActive(i) == activeChord = i

\* table row i: isActive = currentTime >= chord.seconds && currentTime < ...
TableIsActive(i) == Contains(chords[i], currentTime)

\* setCurrentTime(time), from the animation-frame loop and from handleSeek
setCurrentTime(time) ==
  /\ currentTime' = time
  /\ UNCHANGED chords
  /\ UNCHANGED notChordVars

ChordIdle ==
  /\ chords = <<>>
  /\ currentTime = 0

\* the player is mounted for an analysis with some chord list
ChordInit ==
  /\ chords \in ChordLists
  /\ currentTime = 0

-----------------------------------------------------------------------------
(* Chord display: cleanStr and getDisplayChord.                            *)

\* a field that is undefined or null
Undefined == <<"UNDEFINED">>

UpperCase == <<"A", "B", "C", "D", "E", "F", "G", "H", "I", "J", "K", "L", "M",
               "N", "O", "P", "Q", "R", "S", "T", "U", "V", "W", "X", "Y", "Z">>
LowerCase == <<"a", "b", "c", "d", "e", "f", "g", "h", "i", "j", "k", "l", "m",
               "n", "o", "p", "q", "r", "s", "t", "u", "v", "w", "x", "y", "z">>

\* String.prototype.toLowerCase
ToLowerCase(s) ==
  [i \in 1..Len(s) |->
     IF \E k \in 1..26 : UpperCase[k] = s[i]
     THEN LowerCase[CHOOSE k \in 1..26 : UpperCase[k] = s[i]]
     ELSE s[i]]

Placeholders ==
  { <<"n", "o", "n", "e">>, <<"n", "u", "l", "l">>, <<"u", "n", "d", "e", "f", "i", "n", "e", "d">>, <<"n", "/", "a">>, <<"n", "a", "n">> }

\* cleanStr: '' for a falsy field and for a placeholder word, else the
\* trimmed text
cleanStr(str) ==
  IF str = Undefined \/ str = <<>> THEN <<>>
  ELSE IF ToLowerCase(Trim(str)) \in Placeholders THEN <<>>
  ELSE Trim(str)

Levels == {"Basic", "Intermediate", "Advanced"}

\* quality after "Normalize quality"
NormalQuality(q) ==
  IF q = <<"m", "i", "n", "o", "r">> \/ q = <<"m", "i", "n">> THEN <<"m">>
  ELSE IF q = <<"m", "a", "j", "o", "r">> \/ q = <<"m", "a", "j">> THEN <<>>
  ELSE q

\* a copy of getDisplayChord that appends the bass to an accepted symbol
getDisplayChordAppendBass(c, level) ==
  LET root == cleanStr(c.root)
      quality == NormalQuality(cleanStr(c.quality))
      extension == cleanStr(c.extension)
      bass == cleanStr(c.bass)
      symbol == cleanStr(c.symbol)
      slash == IF bass # <<>> /\ bass # root THEN <<"/">> \o bass ELSE <<>>
  IN  IF level = "Basic" THEN root \o quality
      ELSE IF level = "Intermediate" THEN root \o quality \o extension
      ELSE IF symbol # <<>> /\ Len(symbol) < 12 /\ ~Includes(symbol, <<"n", "o", "n", "e">>)
           THEN symbol \o slash
           ELSE root \o quality \o extension \o slash

getDisplayChord(c, level) ==
  LET root == cleanStr(c.root)
      quality == NormalQuality(cleanStr(c.quality))
      extension == cleanStr(c.extension)
      bass == cleanStr(c.bass)
      symbol == cleanStr(c.symbol)
  IN  IF level = "Basic" THEN root \o quality
      ELSE IF level = "Intermediate" THEN root \o quality \o extension
      ELSE IF symbol # <<>> /\ Len(symbol) < 12 /\ ~Includes(symbol, <<"n", "o", "n", "e">>)
           THEN symbol
           ELSE root \o quality \o extension
                  \o (IF bass # <<>> /\ bass # root THEN <<"/">> \o bass ELSE <<>>)

Roots == { Undefined, <<"C">>, <<" ", "A", " ">>, <<"n">> }
Qualities == { Undefined, <<"m", "a", "j", "o", "r">>, <<"m", "i", "n">>, <<"m">>, <<" ", "M", "i", "n", "o", "r", " ">> }
Extensions == { Undefined, <<"7">>, <<"n", "o", "n", "e">>, <<"m", "a", "j", "7">> }
Basses == { Undefined, <<"E">>, <<"C">>, <<"a">>, <<"N", "o", "n", "e">> }
Symbols ==
  { Undefined, <<"C", "m", "a", "j", "7", "/", "E">>, <<" ", "A", "m", "7", " ">>, <<"n", "o", "n", "e">>, <<"C", "n", "o", "n", "e">>, <<"C", "m", "a", "j", "7", "(", "#", "1", "1", ")", "/", "E">>, <<"N", "/", "A">>, <<" ">>, <<"C", "n", "u", "l", "l">> }

ChordFields ==
  [root : Roots, quality : Qualities, extension : Extensions, bass : Basses,
   symbol : Symbols]

\* the level buttons: setComplexity(lvl), and the render that follows
setComplexity(lvl) ==
  /\ complexity' = lvl
  /\ displayed' = getDisplayChord(chord, lvl)
  /\ UNCHANGED chord
  /\ UNCHANGED notDisplayVars

DisplayIdle ==
  /\ chord = [root |-> Undefined, quality |-> Undefined, extension |-> Undefined,
              bass |-> Undefined, symbol |-> Undefined]
  /\ complexity = "Advanced"
  /\ displayed = <<>>

\* a chord of the analysis, first rendered at the initial level
DisplayInit ==
  /\ chord \in ChordFields
  /\ complexity = "Advanced"
  /\ displayed = getDisplayChord(chord, "Advanced")

-----------------------------------------------------------------------------
(* The revisions of extractJSON: geminiService.ts:205 (layered),           *)
(* geminiService.ts:385 (repairs), part_001:9 (markdown block) and         *)
(* part_003:58 (schema).                                                   *)

\* the exception JSON.parse throws
SyntaxError == "SyntaxError"

ErrCouldNotParse == "Could not parse AI response as JSON. The model generated invalid output."
ErrInvalidFormat == "Analysis produced invalid data format."
ErrInvalidFormatRetry == "Analysis produced invalid data format. Please try again."

\* the messages extractJSON words itself
OwnMessages ==
  {ErrEmptyResponse, ErrInvalidJSON, ErrCouldNotParse, ErrInvalidFormat, ErrInvalidFormatRetry}

\* JSON.parse(s) as an outcome
Parse(s) == IF JSONparse(s).ok THEN Returned(JSONparse(s).val) ELSE Thrown(SyntaxError)

\* \w
WordChar(c) ==
  \/ c \in Digits
  \/ c = "_"
  \/ \E k \in 1..26 : c = UpperCase[k] \/ c = LowerCase[k]

\* length of the longest prefix of s made of word characters
RECURSIVE WordRun(_)
WordRun(s) == IF s # <<>> /\ WordChar(s[1]) THEN 1 + WordRun(Tail(s)) ELSE 0

\* s.replace(/(\w+):/g, '"$1":')
RECURSIVE QuoteKeys(_)
QuoteKeys(s) ==
  IF s = <<>> THEN <<>>
  ELSE LET n == WordRun(s) IN
       IF n = 0 THEN <<s[1]>> \o QuoteKeys(Tail(s))
       ELSE IF At(s, n + 1) = ":"
            THEN <<Q>> \o SubSeq(s, 1, n) \o <<Q, ":">> \o QuoteKeys(SubSeq(s, n + 2, Len(s)))
            ELSE SubSeq(s, 1, n) \o QuoteKeys(SubSeq(s, n + 1, Len(s)))

\* s.replace(/,\s*}/g, '}') for close = "}", s.replace(/,\s*]/g, ']') for "]"
RECURSIVE DropCommaBefore(_, _)
DropCommaBefore(s, close) ==
  IF s = <<>> THEN <<>>
  ELSE IF s[1] = "," /\ At(s, SkipWs(s, 2)) = close
       THEN <<close>> \o DropCommaBefore(SubSeq(s, SkipWs(s, 2) + 1, Len(s)), close)
       ELSE <<s[1]>> \o DropCommaBefore(Tail(s), close)

TrailingCommasRemoved(s) == DropCommaBefore(DropCommaBefore(s, "}"), "]")

\* 1-based position of the first occurrence of pat in s at or after from, 0: none
FirstMatch(s, pat, from) ==
  IF \E i \in from..(Len(s) + 1) : MatchAt(s, pat, i)
  THEN CHOOSE i \in from..(Len(s) + 1) :
         MatchAt(s, pat, i) /\ \A j \in from..(i - 1) : ~MatchAt(s, pat, j)
  ELSE 0

NoMatch == <<"NOMATCH">>

\* s.match(/```json\n([\s\S]*?)\n```/): the captured group, or NoMatch
MarkdownMatch(s) ==
  LET open == FenceJson \o <<"\n">>
      close == <<"\n">> \o Fence
      p == FirstMatch(s, open, 1)
      q == IF p = 0 THEN 0 ELSE FirstMatch(s, close, p + Len(open))
  IN  IF p = 0 \/ q = 0 THEN NoMatch ELSE SubSeq(s, p + Len(open), q - 1)

\* s.match(/\{[\s\S]*\}/): the matched text, or NoMatch
BraceMatch(s) ==
  LET i == IndexOf(s, "{")
      j == LastIndexOf(s, "}")
  IN  IF i # -1 /\ j > i THEN Substring(s, i, j + 1) ELSE NoMatch

\* from the first '{' to the last '}', when both exist
OuterBraces(s) ==
  IF IndexOf(s, "{") # -1 /\ LastIndexOf(s, "}") # -1
  THEN Substring(s, IndexOf(s, "{"), LastIndexOf(s, "}") + 1)
  ELSE s

\* geminiService.ts:205-231
extractJSONLayered(text) ==
  IF text = <<>> THEN Thrown(ErrEmptyResponse)
  ELSE IF JSONparse(text).ok THEN Parse(text)
  ELSE LET cleanText == Trim(RemoveAll(RemoveAll(text, FenceJson), Fence))
           jsonMatch == BraceMatch(cleanText)
       IN  IF JSONparse(cleanText).ok THEN Parse(cleanText)
           ELSE IF jsonMatch # NoMatch /\ JSONparse(jsonMatch).ok THEN Parse(jsonMatch)
           ELSE Thrown(ErrCouldNotParse)

\* geminiService.ts:385-419
extractJSONRepair(text) ==
  IF text = <<>> THEN Returned(JsNull)
  ELSE LET trimmed == Trim(text)
           noFence == IF Includes(trimmed, Fence)
                      THEN RemoveAll(RemoveAll(trimmed, FenceJson), Fence)
                      ELSE trimmed
           jsonString == QuoteKeys(OuterBraces(noFence))
           cleaned == TrailingCommasRemoved(jsonString)
       IN  IF JSONparse(jsonString).ok THEN Parse(jsonString)
           ELSE IF JSONparse(cleaned).ok THEN Parse(cleaned)
           ELSE Thrown(ErrInvalidFormat)

\* part_001:9-40
extractJSONMarkdown(text) ==
  IF text = <<>> THEN Returned(JsNull)
  ELSE LET trimmed == Trim(text)
           markdownMatch == MarkdownMatch(trimmed)
           jsonString == IF markdownMatch # NoMatch THEN markdownMatch
                         ELSE OuterBraces(trimmed)
           cleaned == TrailingCommasRemoved(jsonString)
       IN  IF JSONparse(jsonString).ok THEN Parse(jsonString)
           ELSE IF JSONparse(cleaned).ok THEN Parse(cleaned)
           ELSE Thrown(ErrInvalidFormatRetry)

\* part_003:58-69: the second JSON.parse stands outside any try
extractJSONSchema(text) ==
  IF text = <<>> THEN Returned(JsNull)
  ELSE IF JSONparse(text).ok THEN Parse(text)
  ELSE Parse(Trim(RemoveAll(RemoveAll(text, FenceJson), Fence)))

Revisions ==
  {"geminiService.ts:10", "geminiService.ts:205", "geminiService.ts:385",
   "part_001:9", "part_003:58"}

extractJSONOf(rev, text) ==
  CASE rev = "geminiService.ts:10" -> extractJSON(text)
    [] rev = "geminiService.ts:205" -> extractJSONLayered(text)
    [] rev = "geminiService.ts:385" -> extractJSONRepair(text)
    [] rev = "part_001:9" -> extractJSONMarkdown(text)
    [] rev = "part_003:58" -> extractJSONSchema(text)

\* response.text values
ModelTexts ==
  { <<>>,
    <<"{", Q, "a", Q, ":", "1", "}">>,
    <<"{", Q, "t", Q, ":", Q, "0", ":", "0", "0", Q, "}">>,
    <<"{", Q, "a", Q, ":", "[", "1", ",", "2", "]", "}">>,
    <<"n", "u", "l", "l">>,
    <<Backtick, Backtick, Backtick, "j", "s", "o", "n", "\n", "{", Q, "a", Q, ":", "1", "}", "\n", Backtick, Backtick, Backtick>>,
    <<Backtick, Backtick, Backtick, "\n", "{", Q, "a", Q, ":", "1", "}", "\n", Backtick, Backtick, Backtick>>,
    <<"H", "e", "r", "e", " ", "i", "t", " ", "i", "s", ":", " ", "{", Q, "a", Q, ":", "1", "}", " ", "o", "k">>,
    <<"{", "a", ":", "1", "}">>,
    <<"{", Q, "a", Q, ":", "1", ",", "}">>,
    <<"{", Q, "a", Q, ":", "[", "1", ",", "]", ",", "}">>,
    <<"{", Q, "a", Q, ":", "1">>,
    <<"s", "o", "r", "r", "y">>,
    <<Backtick, Backtick, Backtick, "j", "s", "o", "n", "\n", "{", Q, "a", Q, ":", "\n", Backtick, Backtick, Backtick>>,
    <<" ", "{", Q, "a", Q, ":", "1", "}", "\n">> }

\* response.text arrives
ModelResponds(rev, text) ==
  /\ revision = "none"
  /\ revision' = rev
  /\ modelText' = text
  /\ extractResult' = Pending
  /\ UNCHANGED notExtractVars

\* return extractJSON(response.text)
ExtractText ==
  /\ revision # "none"
  /\ extractResult = Pending
  /\ extractResult' = extractJSONOf(revision, modelText)
  /\ UNCHANGED <<revision, modelText>>
  /\ UNCHANGED notExtractVars

ExtractIdle ==
  /\ revision = "none"
  /\ modelText = <<>>
  /\ extractResult = Pending

-----------------------------------------------------------------------------
(* generateWithFailover, part_004:87-140.                                  *)

AUDIO_MODELS == <<"gemini-1.5-flash", "gemini-1.5-flash-002", "gemini-1.5-pro">>

SWITCH_DELAY == 1500

ErrAllModelsFailed ==
  <<"All AI models failed to respond. Please check your internet connection or try a smaller file.">>
ErrEmptyText == <<"E", "m", "p", "t", "y", " ", "r", "e", "s", "p", "o", "n", "s", "e">>

\* error.message of a rejected generateContent call
FailoverErrors ==
  { <<"4", "2", "9">>, <<"5", "0", "3">>, <<"5", "0", "0">>, <<"b", "u", "s", "y">>, <<"o", "v", "e", "r", "l", "o", "a", "d", "e", "d">>, <<"n", "o", "t", " ", "f", "o", "u", "n", "d">>, <<"4", "0", "0">>, <<"B", "u", "s", "y">> }

\* a call resolves with a text, resolves without one, or rejects
FailoverOutcomes == {OkResponse, EmptyResponse} \cup FailoverErrors

\* the error the catch block receives for outcome o
FailoverCaught(o) == IF o = EmptyResponse THEN ErrEmptyText ELSE o

isRetryableAlways(msg) == TRUE
\* const isRetryable = error.message.includes("429") || ...
isRetryable(msg) ==
  \/ Includes(msg, <<"4", "2", "9">>)
  \/ Includes(msg, <<"5", "0", "3">>)
  \/ Includes(msg, <<"5", "0", "0">>)
  \/ Includes(msg, <<"b", "u", "s", "y">>)
  \/ Includes(msg, <<"o", "v", "e", "r", "l", "o", "a", "d", "e", "d">>)
  \/ Includes(msg, <<"n", "o", "t", " ", "f", "o", "u", "n", "d">>)

\* const modelId = AUDIO_MODELS[attempt] is undefined
NoModel == attempt >= Len(AUDIO_MODELS)

\* the call resolves with a text: return response
FailoverCallReturns ==
  /\ failover = "calling"
  /\ ~NoModel
  /\ modelOutcomes[Len(called) + 1] = OkResponse
  /\ called' = Append(called, AUDIO_MODELS[attempt + 1])
  /\ failoverResult' = Len(called) + 1
  /\ failover' = "returned"
  /\ UNCHANGED <<modelOutcomes, attempt, switchDelays, failoverError>>
  /\ UNCHANGED notFailoverVars

\* no model is left, or the call rejects or resolves without text: the catch block
FailoverCallFails ==
  /\ failover = "calling"
  /\ IF NoModel
     THEN /\ failover' = "thrown"
          /\ failoverError' = ErrAllModelsFailed
          /\ UNCHANGED called
     ELSE /\ modelOutcomes[Len(called) + 1] # OkResponse
          /\ called' = Append(called, AUDIO_MODELS[attempt + 1])
          /\ LET msg == FailoverCaught(modelOutcomes[Len(called) + 1]) IN
             IF isRetryable(msg) /\ attempt < Len(AUDIO_MODELS) - 1
             THEN /\ failover' = "waiting"
                  /\ UNCHANGED failoverError
             ELSE /\ failover' = "thrown"
                  /\ failoverError' = msg
  /\ UNCHANGED <<modelOutcomes, attempt, switchDelays, failoverResult>>
  /\ UNCHANGED notFailoverVars

\* await delay(1500); return generateWithFailover(contents, config, attempt + 1)
SwitchToBackup ==
  /\ failover = "waiting"
  /\ switchDelays' = Append(switchDelays, SWITCH_DELAY)
  /\ attempt' = attempt + 1
  /\ failover' = "calling"
  /\ UNCHANGED <<modelOutcomes, called, failoverResult, failoverError>>
  /\ UNCHANGED notFailoverVars

FailoverIdle ==
  /\ modelOutcomes = <<>>
  /\ attempt = 0
  /\ called = <<>>
  /\ failover = "idle"
  /\ switchDelays = <<>>
  /\ failoverResult = 0
  /\ failoverError = <<>>

\* generateWithFailover(contents, config) is called
FailoverInit ==
  /\ modelOutcomes \in [1..Len(AUDIO_MODELS) -> FailoverOutcomes]
  /\ attempt = 0
  /\ called = <<>>
  /\ failover = "calling"
  /\ switchDelays = <<>>
  /\ failoverResult = 0
  /\ failoverError = <<>>

-----------------------------------------------------------------------------
(* Chord display, the revision of part_009:10 ("Dynamic Complexity Logic"). *)

\* the exception of a method call on undefined
TypeError == <<"TYPEERROR">>

\* JsString of a field in a string concatenation
JsString(x) == IF x = Undefined THEN <<"u", "n", "d", "e", "f", "i", "n", "e", "d">> ELSE x

\* a += b
PlusAssign(a, b) == JsString(a) \o JsString(b)

\* base after the quality suffix: 'm', 'dim', 'aug' or nothing
DynamicBase(c) ==
  LET q == ToLowerCase(c.quality)
  IN  IF Includes(q, <<"m", "i", "n">>) \/ q = <<"m">> THEN PlusAssign(c.root, <<"m">>)
      ELSE IF Includes(q, <<"d", "i", "m">>) THEN PlusAssign(c.root, <<"d", "i", "m">>)
      ELSE IF Includes(q, <<"a", "u", "g">>) THEN PlusAssign(c.root, <<"a", "u", "g">>)
      ELSE c.root

\* getDisplayChord of part_009: the symbol as it is at Advanced; the call of
\* toLowerCase on a missing quality throws
getDisplayChordDynamic(c, level) ==
  IF level = "Advanced" THEN c.symbol
  ELSE IF c.quality = Undefined THEN TypeError
  ELSE IF level = "Basic" THEN DynamicBase(c)
  ELSE LET base == DynamicBase(c)
           inter == IF c.extension # Undefined /\ c.extension # <<>>
                    THEN PlusAssign(base, c.extension) ELSE base
       IN  IF c.bass # Undefined /\ c.bass # <<>> /\ c.bass # c.root
           THEN PlusAssign(inter, <<"/">> \o c.bass) ELSE inter

\* the level buttons of part_009
setComplexityDynamic(lvl) ==
  /\ complexity' = lvl
  /\ displayed' = getDisplayChordDynamic(chord, lvl)
  /\ UNCHANGED chord
  /\ UNCHANGED notDisplayVars

\* useState<AnalysisLevel>('Intermediate')
DisplayDynamicInit ==
  /\ chord \in ChordFields
  /\ complexity = "Intermediate"
  /\ displayed = getDisplayChordDynamic(chord, "Intermediate")

-----------------------------------------------------------------------------
(* gridMarkers of MoisesPlayer, part_010:68-87.                            *)

\* the longest finite duration, in seconds
MaxGridDuration == 2
\* the half seconds of a minute
HalvesPerMinute == 120
\* the seconds added to the duration "to cover fade out"
FadeOut == 5

\* audio.duration of a file without a length in its header
Infinity == MaxGridDuration + 1000

GridBpms == {0 - 60, 0, 60, 120}
GridSignatures == {"", "4/4"}
GridDurations == (0..MaxGridDuration) \cup {Infinity}

\* the most markers a finite duration of the model gives, and one more
GridCap == (MaxGridDuration + FadeOut) * 2 + 1

\* const secondsPerBeat = 60 / bpm
GridSecondsPerBeat(b) ==
  IF b < 0 THEN 0 - (HalvesPerMinute \div (0 - b)) ELSE HalvesPerMinute \div b

\* t < duration + 5
GridLoopCondition(t, d) == d = Infinity \/ t < (d + FadeOut) * 2

\* if (!analysis.bpm || !analysis.timeSignature) return []
gridMarkersEnter ==
  /\ gridPc = "call"
  /\ gridPc' = IF gridBpm = 0 \/ gridSignature = "" THEN "done" ELSE "loop"
  /\ gridT' = 0
  /\ markers' = <<>>
  /\ UNCHANGED <<gridBpm, gridSignature, gridDuration>>
  /\ UNCHANGED notGridVars

\* one iteration: markers.push({time: t, ...}); t += secondsPerBeat
gridMarkersLoop ==
  /\ gridPc = "loop"
  /\ GridLoopCondition(gridT, gridDuration)
  /\ Len(markers) < GridCap
  /\ markers' = Append(markers, gridT)
  /\ gridT' = gridT + GridSecondsPerBeat(gridBpm)
  /\ UNCHANGED <<gridBpm, gridSignature, gridDuration, gridPc>>
  /\ UNCHANGED notGridVars

\* the loop goes on past every list a finite duration of the model gives:
\* it runs until the page is out of memory
gridMarkersOverrun ==
  /\ gridPc = "loop"
  /\ GridLoopCondition(gridT, gridDuration)
  /\ Len(markers) = GridCap
  /\ gridPc' = "overrun"
  /\ UNCHANGED <<gridBpm, gridSignature, gridDuration, gridT, markers>>
  /\ UNCHANGED notGridVars

\* the loop condition fails: return markers
gridMarkersReturn ==
  /\ gridPc = "loop"
  /\ ~GridLoopCondition(gridT, gridDuration)
  /\ gridPc' = "done"
  /\ UNCHANGED <<gridBpm, gridSignature, gridDuration, gridT, markers>>
  /\ UNCHANGED notGridVars

GridIdle ==
  /\ gridBpm = 0
  /\ gridSignature = ""
  /\ gridDuration = 0
  /\ gridT = 0
  /\ markers = <<>>
  /\ gridPc = "idle"

\* the memo runs for an analysis and a duration
GridInit ==
  /\ gridBpm \in GridBpms
  /\ gridSignature \in GridSignatures
  /\ gridDuration \in GridDurations
  /\ gridT = 0
  /\ markers = <<>>
  /\ gridPc = "call"

-----------------------------------------------------------------------------
(* Specifications.                                                         *)

JsonInit == JsonIdle /\ RetryIdle /\ AppIdle /\ ClickIdle /\ ChordIdle /\ DisplayIdle /\ ExtractIdle /\ FailoverIdle /\ GridIdle
JsonNext == ReceiveResponse \/ ExtractJSON
SpecJSON == JsonInit /\ [][JsonNext]_vars

RetryStart == RetryInit /\ JsonIdle /\ AppIdle /\ ClickIdle /\ ChordIdle /\ DisplayIdle /\ ExtractIdle /\ FailoverIdle /\ GridIdle
RetryNext == CallSucceeds \/ CallFails \/ DelayElapses
\* the event loop runs every settled promise and every expired timer
SpecRetry == RetryStart /\ [][RetryNext]_vars /\ WF_vars(RetryNext)

RetryAllNext == CallReturnsText \/ CallFailsOrEmpty \/ DelayElapses
SpecRetryAll == RetryStart /\ [][RetryAllNext]_vars /\ WF_vars(RetryAllNext)

AppInit == AppIdle /\ JsonIdle /\ RetryIdle /\ ClickIdle /\ ChordIdle /\ DisplayIdle /\ ExtractIdle /\ FailoverIdle /\ GridIdle
AppNext ==
  \/ \E tab \in {"upload", "mic", "link"} : SetActiveTab(tab)
  \/ \E size \in FileSizes : handleFileUpload(size)
  \/ startRecording
  \/ \E r \in 1..MaxRecorders : MicGranted(r)
  \/ \E r \in 1..MaxRecorders : MicDenied(r)
  \/ stopRecording
  \/ \E r \in 1..MaxRecorders, size \in FileSizes : onstop(r, size)
  \/ \E u \in LinkInputs : SetLinkUrl(u)
  \/ handleLinkSubmit
  \/ \E i \in 1..MaxRequests, a \in AudioLoads : PrepareDone(i, a)
  \/ \E i \in 1..MaxRequests : PrepareFails(i)
  \/ \E i \in 1..MaxRequests : RequestAnswered(i)
  \/ \E i \in 1..MaxRequests : RequestFails(i)
  \/ handleReset
SpecApp == AppInit /\ [][AppNext]_vars

ClickStart == ClickInit /\ JsonIdle /\ RetryIdle /\ AppIdle /\ ChordIdle /\ DisplayIdle /\ ExtractIdle /\ FailoverIdle /\ GridIdle
ClickNext ==
  \/ Tick
  \/ TimerFires
  \/ togglePlay
  \/ toggleMetronome
  \/ \E r \in RateHalves : changeRate(r)
  \/ \E time \in SeekTargets : handleSeek(time)
  \/ \E seconds \in SkipButtons : skip(seconds)
  \/ onEnded
  \/ FrameCallback
  \/ unmount
SpecClick == ClickStart /\ [][ClickNext]_vars

ChordStart == ChordInit /\ JsonIdle /\ RetryIdle /\ AppIdle /\ ClickIdle /\ DisplayIdle /\ ExtractIdle /\ FailoverIdle /\ GridIdle
ChordNext == \E time \in PlayTimes : setCurrentTime(time)
SpecChords == ChordStart /\ [][ChordNext]_vars

DisplayStart == DisplayInit /\ JsonIdle /\ RetryIdle /\ AppIdle /\ ClickIdle /\ ChordIdle /\ ExtractIdle /\ FailoverIdle /\ GridIdle
DisplayNext == \E lvl \in Levels : setComplexity(lvl)
SpecDisplay == DisplayStart /\ [][DisplayNext]_vars

DisplayDynamicStart ==
  DisplayDynamicInit /\ JsonIdle /\ RetryIdle /\ AppIdle /\ ClickIdle /\ ChordIdle /\ ExtractIdle /\ FailoverIdle /\ GridIdle
DisplayDynamicNext == \E lvl \in Levels : setComplexityDynamic(lvl)
SpecDisplayDynamic == DisplayDynamicStart /\ [][DisplayDynamicNext]_vars

ExtractStart == ExtractIdle /\ JsonIdle /\ RetryIdle /\ AppIdle /\ ClickIdle /\ ChordIdle /\ DisplayIdle /\ FailoverIdle /\ GridIdle
ExtractNext ==
  \/ \E rev \in Revisions, text \in ModelTexts : ModelResponds(rev, text)
  \/ ExtractText
SpecExtract == ExtractStart /\ [][ExtractNext]_vars

GridStart ==
  GridInit /\ JsonIdle /\ RetryIdle /\ AppIdle /\ ClickIdle /\ ChordIdle /\ DisplayIdle /\ ExtractIdle /\ FailoverIdle
GridNext == gridMarkersEnter \/ gridMarkersLoop \/ gridMarkersOverrun \/ gridMarkersReturn
\* the loop runs on the main thread without interruption
SpecGrid == GridStart /\ [][GridNext]_vars /\ WF_vars(GridNext)

FailoverStart ==
  FailoverInit /\ JsonIdle /\ RetryIdle /\ AppIdle /\ ClickIdle /\ ChordIdle /\ DisplayIdle /\ ExtractIdle /\ GridIdle
FailoverNext == FailoverCallReturns \/ FailoverCallFails \/ SwitchToBackup
SpecFailover == FailoverStart /\ [][FailoverNext]_vars

-----------------------------------------------------------------------------
\* C1: for a response built around one valid JSON object (fenced or not, with
\* or without prose around it) extractJSON returns what JSON.parse returns on
\* the isolated object text.
C1_ExtractEqualsIsolatedParse ==
  (extracted # Pending /\ isolated \in ValidObjects)
    => extracted = Returned(JSONparse(isolated).val)

\* C5: when the first three calls fail with a transient error and the fourth
\* succeeds, generateWithRetry returns the fourth response after exactly four
\* calls and the three waits 2000, 4000, 8000 ms, in that order.
C5_ThreeTransientThenSuccess ==
  ( /\ RetryDone
    /\ \A i \in 1..3 : script[i] # OkResponse /\ isTransient(script[i])
    /\ script[4] = OkResponse )
  => /\ rpc = "returned"
     /\ retResult = 4
     /\ calls = 4
     /\ delays = <<2000, 4000, 8000>>

C5_Witness ==
  /\ rpc = "returned"
  /\ calls = 4
  /\ Len(delays) = 3
  /\ \A i \in 1..3 : isTransient(script[i])

\* C6: generateWithRetry always terminates, after at most MAX_RETRIES + 1 = 4
\* calls; what it returns is the response of the first call that succeeded
\* (every call before it failed), and what it throws is the error of the last
\* call made, which is the fourth call when all failures were transient.
C6_Bounded ==
  /\ calls <= MAX_RETRIES + 1
  /\ rpc = "returned" =>
       /\ retResult = calls
       /\ Resolves(script[calls])
       /\ \A i \in 1..(calls - 1) : ~Resolves(script[i])
  /\ rpc = "thrown" =>
       /\ rethrown = script[calls]
       /\ ~Resolves(script[calls])
       /\ isTransient(script[calls]) => calls = MAX_RETRIES + 1

C6_TerminatesWithinFourCalls == []C6_Bounded /\ <>RetryDone

C6_Witness ==
  /\ rpc = "thrown"
  /\ calls = 4
  /\ rethrown = script[4]
  /\ Len(delays) = 3

\* C7: an upload of a file larger than 9.5 * 1024 * 1024 bytes shows the size
\* alert, leaves the status IDLE and starts no request; a file of the limit or
\* less is handed to processAudio.
C7_OversizeUploadRejected ==
  [][ \A size \in FileSizes \ {NoFile} :
        handleFileUpload(size) =>
          IF 2 * size > 19 * 1024 * 1024
          THEN /\ lastAlert' = AlertFileTooLarge
               /\ status = "IDLE" /\ status' = "IDLE"
               /\ requests' = requests
          ELSE /\ status' = "PROCESSING_AUDIO"
               /\ requests' = StartRequest(requests, "audio", "preparing")
               /\ lastAlert' = lastAlert ]_vars

C7_Witness ==
  /\ lastAlert = AlertFileTooLarge
  /\ status = "IDLE"
  /\ requests = <<>>

\* C8: at most one analysis request to the model is outstanding at any time.
C8_AtMostOneOutstanding == Cardinality(Outstanding) <= 1

\* C9: whenever a request has finished (status COMPLETE or ERROR) a reset
\* control is rendered, whatever the response parsed to; in IDLE the input
\* component is rendered.
C9_CanAlwaysStartNew ==
  /\ status = "IDLE" => InputMounted
  /\ status \in {"COMPLETE", "ERROR"} => ResetRendered

\* C2: any two clicks the scheduler starts are at least one beat of the
\* played audio apart, 60/BPM/playbackRate seconds (the shortest such beat
\* is the one at the fastest rate, 1.0x); in particular no start time is used
\* twice.
C2_ClicksOneBeatApart ==
  \A t1 \in DOMAIN clicks :
    /\ clicks[t1] = 1
    /\ \A t2 \in DOMAIN clicks : t1 # t2 => Abs(t1 - t2) >= SecondsPerBeatScaled(2)

\* the clock time of the next beat boundary of the audio, as the cycle
\* recorded in lastCycle saw it
C3_Target == TargetCtxTime(lastCycle.at, lastCycle.audio, lastCycle.rate)

C4_Containing == { i \in 1..Len(chords) : Contains(chords[i], currentTime) }

C4_NonDecreasing ==
  \A i \in 1..(Len(chords) - 1) : chords[i].seconds <= chords[i + 1].seconds

\* C4: for chord events with non-decreasing start times and any playback
\* time, the lookup returns the unique event whose interval contains the time
\* and none in a gap, and no second event is marked active.
C4_UniqueActiveChord ==
  C4_NonDecreasing =>
    /\ C4_Containing = {} => activeChord = 0
    /\ C4_Containing # {} => C4_Containing = {activeChord}
    /\ Cardinality({ i \in 1..Len(chords) : TimelineIsActive(i) }) <= 1
    /\ Cardinality({ i \in 1..Len(chords) : TableIsActive(i) }) <= 1

\* C10: for every chord and level, putting the string getDisplayChord
\* produced at that level in the chord's symbol and formatting again at the
\* same level returns the same string.
C10_DisplayIdempotent ==
  getDisplayChord([chord EXCEPT !.symbol = displayed], complexity) = displayed

\* the advanced level fell back to the constructed name with a slash bass,
\* and that name is accepted as a symbol the second time
C10_Witness ==
  /\ complexity = "Advanced"
  /\ displayed # <<>>
  /\ displayed # cleanStr(chord.symbol)
  /\ Includes(displayed, <<"/">>)
  /\ cleanStr(displayed) = displayed
  /\ Len(displayed) < 12

\* C11: extractJSON raises only when the text did not parse, what it raises
\* is one of its own messages and never the parser's exception, and for an
\* empty text it raises instead of returning null.
C11_RaisesOwnErrorOnly ==
  (extractResult # Pending /\ revision \in {"geminiService.ts:205", "part_003:58", "part_001:9"})
    => /\ extractResult.kind = "throw" =>
            /\ extractResult.val[1] \in OwnMessages
            /\ ~JSONparse(modelText).ok
       /\ modelText = <<>> => extractResult.kind = "throw"

\* C13: the repairs are applied only to text that failed the plain parse: a
\* text that parses as it stands is returned as JSON.parse returns it.
C13_DirectParseUnaltered ==
  ( /\ extractResult # Pending
    /\ revision \in {"geminiService.ts:385", "part_001:9"}
    /\ JSONparse(modelText).ok )
    => extractResult = Returned(JSONparse(modelText).val)

\* C12: a response with an empty text is retried like a transient error: the
\* wait of the backoff follows it, and only the fourth call's empty response
\* ends the request with an error.
C12_EmptyResponseRetried ==
  \A k \in 1..calls :
    script[k] = EmptyResponse =>
      IF k <= MAX_RETRIES
      THEN (k = calls /\ rpc = "waiting") \/ Len(delays) >= k
      ELSE rpc = "thrown"

\* C14: only transient failures are retried: every wait follows a transient
\* failure, and a failure of any other kind is the last call made and is
\* rethrown at once.
C14_RetriesOnlyTransient ==
  /\ \A k \in 1..Len(delays) : isTransient(script[k])
  /\ \A k \in 1..calls :
       (~Resolves(script[k]) /\ ~isTransient(script[k]))
         => (k = calls /\ rpc = "thrown" /\ rethrown = script[k])

\* C15: every click of a scheduling cycle starts at the clock time at which
\* the audio, playing on at its rate, stands on a beat boundary (a multiple
\* of 60/BPM), the first click after play or after enabling the metronome
\* included, and no click starts before the clock time of the cycle.
C15_ClicksOnBeat ==
  \A i \in 1..Len(scheduled.starts) :
    LET start == scheduled.starts[i] IN
      /\ start >= scheduled.at
      /\ (2 * scheduled.audio + (start - scheduled.at) * scheduled.rate)
           % (2 * SecondsPerBeat) = 0

C16_Stopped == ~isPlaying \/ ~mounted

C16_Quiet ==
  (C16_Stopped /\ C16_Stopped')
    => /\ clicks' = clicks
       /\ userOps' = userOps
            => /\ playerCurrentTime' = playerCurrentTime
               /\ parentCurrentTime' = parentCurrentTime

C17_Published ==
  ( /\ playerCurrentTime' # playerCurrentTime \/ parentCurrentTime' # parentCurrentTime
    /\ \A seconds \in SkipButtons : ~skip(seconds) )
    => /\ playerCurrentTime' = audioTime'
       /\ parentCurrentTime' = audioTime'

\* a frame callback (the only step that sets frameDrawn) run while playing
C17_AfterFrame ==
  (~frameDrawn /\ frameDrawn' /\ isPlaying /\ mounted /\ ~audioPaused)
    => /\ playerCurrentTime' = audioTime'
       /\ parentCurrentTime' = audioTime'

\* C17: while the audio plays, after every frame callback the player's
\* currentTime and the parent's currentTime equal audio.currentTime, and
\* every step that changes either of them, the skip buttons aside, sets both
\* to audio.currentTime.
C17_TimesFollowAudio == [][C17_AfterFrame /\ C17_Published]_vars

\* a frame was drawn at half speed with the audio past its start
C17_Witness ==
  /\ isPlaying
  /\ ~audioPaused
  /\ frameDrawn
  /\ playbackRate = 1
  /\ audioTime > 0
  /\ playerCurrentTime = audioTime
  /\ parentCurrentTime = audioTime

\* the value is a JSON object, as an analysis is
C18_IsObject(val) == val # <<>> /\ Head(val) = "{"

\* a request settles: either with an analysis object and COMPLETE, or as a
\* failure with ERROR, an error message and no analysis
C18_Settles ==
  Len(requests') < Len(requests)
    => \/ /\ status' = "COMPLETE"
          /\ C18_IsObject(analysis')
       \/ /\ status' = "ERROR"
          /\ error' \notin {JsNull, <<>>, <<"">>}
          /\ analysis' = JsNull

\* C18: a request that fails (the model call throws, or the response gives no
\* analysis object) ends with status ERROR, a non-empty error message and
\* analysis null, never with COMPLETE or IDLE.
C18_FailureEndsInError == [][C18_Settles]_vars

\* a processAudio / processLink invocation starts
C19_Starts == Len(requests') > Len(requests)

\* the last running invocation completes
C19_Completes == Len(requests) = 1 /\ requests' = <<>> /\ status' = "COMPLETE"

\* C19: starting an analysis sets analysis and error to null before the
\* request is issued, and the analysis that stands when the requests have
\* completed is the result of the request started last.
C19_ShowsLatestResult ==
  [][ /\ C19_Starts => (analysis' = JsNull /\ error' = JsNull)
      /\ C19_Completes => requests[1].latest ]_vars

\* C20: the models of AUDIO_MODELS are called in list order and each at most
\* once; every call but the last failed with a retryable error; a response
\* that is returned is the first one with a text, from the last model called.
C20_FailoverInOrder ==
  /\ Len(called) <= Len(AUDIO_MODELS)
  /\ called = SubSeq(AUDIO_MODELS, 1, Len(called))
  /\ \A k \in 1..(Len(called) - 1) :
       /\ modelOutcomes[k] \in FailoverErrors
       /\ \E mark \in {<<"4", "2", "9">>, <<"5", "0", "3">>, <<"5", "0", "0">>,
                       <<"b", "u", "s", "y">>,
                       <<"o", "v", "e", "r", "l", "o", "a", "d", "e", "d">>,
                       <<"n", "o", "t", " ", "f", "o", "u", "n", "d">>} :
            Includes(modelOutcomes[k], mark)
  /\ failover = "returned" =>
       /\ failoverResult = Len(called)
       /\ modelOutcomes[failoverResult] = OkResponse
  /\ (failoverResult = 0) = (failover # "returned")

\* the third model answers after the first two failed with retryable errors
C20_Witness ==
  /\ failover = "returned"
  /\ called = AUDIO_MODELS
  /\ failoverResult = 3

\* C21: when the call to every model of AUDIO_MODELS fails with a retryable
\* error, generateWithFailover throws the error 'All AI models failed to
\* respond. Please check your internet connection or try a smaller file.'
C21_AllFailedMessage ==
  ( /\ failover = "thrown"
    /\ called = AUDIO_MODELS
    /\ \A k \in 1..Len(AUDIO_MODELS) :
         modelOutcomes[k] \in FailoverErrors /\ isRetryable(modelOutcomes[k]) )
    => failoverError = ErrAllModelsFailed

\* C22: a recording that was started and stopped, once its stop event has
\* been handled, has every track of its microphone stream stopped, whether
\* the recording was handed to onAudioReady or rejected as too large.
C22_TracksStoppedAfterStop ==
  \A r \in 1..MaxRecorders :
    recorders[r].st \in {"free", "inactive"} => ~recorders[r].live

\* the invocations whose file the audio element failed to load
C23_LoadFailed(reqs) == {i \in 1..Len(reqs) : reqs[i].loadFailed}

\* C23: when the audio element fails to load the file, getAudioDuration
\* resolves with 0 and processAudio goes on to ANALYZING_AI and issues its
\* request with duration 0; the failed load does not set the status ERROR.
C23_DecodeFailureProceeds ==
  /\ [](\A i \in C23_LoadFailed(requests) :
          requests[i].pc = "analyzing" /\ requests[i].duration = 0)
  /\ [][ C23_LoadFailed(requests') # C23_LoadFailed(requests)
           /\ Len(requests') = Len(requests)
             => status' = "ANALYZING_AI" ]_vars

\* the request of a file that did not load is outstanding
C23_Witness ==
  /\ status = "ANALYZING_AI"
  /\ Len(requests) = 1
  /\ requests[1].loadFailed
  /\ requests[1].pc = "analyzing"
  /\ requests[1].duration = 0

\* the Intermediate string is the Basic string followed by the extension
\* (as given or cleaned) and nothing else; the Basic string has no slash
C24_Nested(basic, shown) ==
  /\ complexity = "Basic" => ~Includes(shown, <<"/">>)
  /\ complexity = "Intermediate" =>
       \/ shown = basic \o cleanStr(chord.extension)
       \/ chord.extension # Undefined /\ shown = basic \o chord.extension

\* getDisplayChord of part_010 keeps the slash bass to the Advanced level
C24_NestedInPart010 == C24_Nested(getDisplayChord(chord, "Basic"), displayed)

\* C24: the Basic string is root and normalized quality without extension or
\* slash bass, the Intermediate string is the Basic string followed by the
\* extension only, and only the Advanced string may carry a slash bass.
C24_SlashBassOnlyAdvanced ==
  displayed # TypeError =>
    C24_Nested(JsString(getDisplayChordDynamic(chord, "Basic")), JsString(displayed))

\* C25: for a chord whose fields are missing or hold a placeholder word ('none',
\* 'null', 'undefined', 'n/a', 'nan' in any letter case, alone or inside the
\* symbol), getDisplayChord returns without throwing and the string it returns
\* holds no placeholder word, at every level.
C25_NoPlaceholderShown ==
  /\ displayed # TypeError
  /\ \A p \in Placeholders : ~Includes(ToLowerCase(JsString(displayed)), p)

\* the status changes the lifecycle allows
C26_Allowed ==
  { <<"IDLE", "PROCESSING_AUDIO">>, <<"PROCESSING_AUDIO", "ANALYZING_AI">>,
    <<"ANALYZING_AI", "COMPLETE">>, <<"ANALYZING_AI", "ERROR">>,
    <<"IDLE", "ANALYZING_AI">>, <<"PROCESSING_AUDIO", "ERROR">>,
    <<"COMPLETE", "IDLE">>, <<"ERROR", "IDLE">> }

\* C26: the status changes only along IDLE -> PROCESSING_AUDIO -> ANALYZING_AI
\* -> (COMPLETE | ERROR), IDLE -> ANALYZING_AI -> (COMPLETE | ERROR),
\* PROCESSING_AUDIO -> ERROR and (COMPLETE | ERROR) -> IDLE; RECORDING is never
\* entered, and a finished state is left only by the reset.
C26_StatusLifecycle ==
  /\ [](status # "RECORDING")
  /\ [][ status' # status => <<status, status'>> \in C26_Allowed ]_vars

\* the number of setTimeout(scheduleClicks) timeouts that are still to fire
C27_PendingTimeouts == (IF schedulerTimerRef # NoTimer THEN 1 ELSE 0) + orphanTimers

\* C27: at most one timeout of the click scheduler is pending, under every
\* interleaving of play, pause, metronome and speed changes, seeks, timer
\* firings and unmount.
C27_OneSchedulerChain == C27_PendingTimeouts <= 1

\* the effect ran again for a new speed while the chain of the previous run
\* was pending
C27_Witness ==
  /\ isPlaying /\ showMetronome
  /\ playbackRate = 1
  /\ closure.playbackRate = 1
  /\ scheduled.at > 0
  /\ schedulerTimerRef = scheduled.at + Lookahead
  /\ C27_PendingTimeouts = 1

\* C28: after any sequence of seek, skip, stop and play operations the
\* player's currentTime state lies in [0, duration].
C28_CurrentTimeInRange ==
  0 <= playerCurrentTime /\ playerCurrentTime <= AudioDuration

\* a chord event with its times in clock ticks
C29_InTicks(c) ==
  [seconds |-> c.seconds * TicksPerSecond, duration |-> c.duration * TicksPerSecond]

\* C29: the chord highlighted in the timeline (found with the player's
\* currentTime) is the event of the row highlighted in the table (tested with
\* the parent's currentTime): the two times are equal and select the same
\* events, after any sequence of play, pause, seek and skip.
C29_SameHighlight ==
  /\ playerCurrentTime = parentCurrentTime
  /\ \A c \in ChordEvents :
       Contains(C29_InTicks(c), playerCurrentTime) <=> Contains(C29_InTicks(c), parentCurrentTime)

C30_Increasing(seq) == \A i \in 1..(Len(seq) - 1) : seq[i] < seq[i + 1]

\* C30: gridMarkers terminates for every bpm, time signature and duration
\* (a negative bpm and an unbounded duration included), and the list it
\* returns is finite with strictly increasing times.
C30_GridTerminates ==
  /\ [](gridPc # "overrun")
  /\ <>(gridPc = "done")
  /\ [](gridPc = "done" => C30_Increasing(markers))

====
